---- MODULE Spec2Model ----
(***************************************************************************)
(* Model of app.py, the Flask page server of the radio mixer project.      *)
(*                                                                         *)
(* Strings whose characters matter (file names, URL paths, the value of    *)
(* PORT) are sequences of code points, so that suffix tests, wildcard      *)
(* matching, string ordering and integer parsing are computed character by *)
(* character, as Python computes them.                                     *)
(***************************************************************************)
EXTENDS Integers, Sequences, FiniteSets, Bags, TLC

(***************************************************************************)
(* Bounds of the model.                                                    *)
(***************************************************************************)
\* largest number of entries the audio directory holds
MaxEntries == 3
\* number of requests the framework may have in flight at once
MaxRequests == 2
\* number of consecutive scans of the same directory contents that the
\* history keeps
MaxRuns == 2

(***************************************************************************)
(* Characters and strings.                                                 *)
(***************************************************************************)
Lower == <<"a","b","c","d","e","f","g","h","i","j","k","l","m",
           "n","o","p","q","r","s","t","u","v","w","x","y","z">>
Upper == <<"A","B","C","D","E","F","G","H","I","J","K","L","M",
           "N","O","P","Q","R","S","T","U","V","W","X","Y","Z">>
Digit == <<"0","1","2","3","4","5","6","7","8","9">>

\* code point of a one-character string (ASCII)
Ord(c) ==
  IF \E i \in 1..26 : Lower[i] = c THEN 96 + (CHOOSE i \in 1..26 : Lower[i] = c)
  ELSE IF \E i \in 1..26 : Upper[i] = c THEN 64 + (CHOOSE i \in 1..26 : Upper[i] = c)
  ELSE IF \E i \in 1..10 : Digit[i] = c THEN 47 + (CHOOSE i \in 1..10 : Digit[i] = c)
  ELSE CASE c = " " -> 32 [] c = "*" -> 42 [] c = "+" -> 43 [] c = "-" -> 45
         [] c = "." -> 46 [] c = "/" -> 47 [] c = "?" -> 63 [] c = "_" -> 95

\* the string spelled by a tuple of one-character strings
Str(cs) == [i \in 1..Len(cs) |-> Ord(cs[i])]

\* str.lower() on ASCII
lower(s) == [i \in 1..Len(s) |-> IF s[i] >= 65 /\ s[i] <= 90 THEN s[i] + 32 ELSE s[i]]

\* Python's < on str: code point by code point, a proper prefix is smaller
RECURSIVE str_lt(_, _)
str_lt(a, b) ==
  IF b = <<>> THEN FALSE
  ELSE IF a = <<>> THEN TRUE
  ELSE IF Head(a) = Head(b) THEN str_lt(Tail(a), Tail(b))
  ELSE Head(a) < Head(b)

(***************************************************************************)
(* Configuration (app.py lines 10-17).                                     *)
(***************************************************************************)
\* the value bound to STATION_COUNT at line 10
STATION_COUNT_VALUE == 4

\* Flask(__name__, static_folder="static", ...): the static folder and its
\* URL prefix
static_folder == <<Str(<<"s","t","a","t","i","c">>)>>
static_url_path == Str(<<"/","s","t","a","t","i","c">>)

\* AUDIO_DIR = Path(app.static_folder) / "audio", as path components
AUDIO_DIR == static_folder \o <<Str(<<"a","u","d","i","o">>)>>

\* the pattern handed to glob at line 17
GLOB_PATTERN == Str(<<"*",".","m","p","3">>)

(***************************************************************************)
(* pathlib: Path.glob and Path.name on a POSIX flavour.                    *)
(***************************************************************************)
\* fnmatch of one name against a pattern with * and ? (case-sensitive,
\* a leading dot is not special)
RECURSIVE fnmatch(_, _)
fnmatch(pat, s) ==
  IF pat = <<>> THEN s = <<>>
  ELSE IF Head(pat) = 42
    THEN fnmatch(Tail(pat), s) \/ (s # <<>> /\ fnmatch(pat, Tail(s)))
  ELSE IF Head(pat) = 63
    THEN s # <<>> /\ fnmatch(Tail(pat), Tail(s))
  ELSE s # <<>> /\ Head(s) = Head(pat) /\ fnmatch(Tail(pat), Tail(s))

\* a case-folding matcher (what a Windows flavour, or a lower() on the
\* name, would do)
match_nocase(pat, s) == fnmatch(lower(pat), lower(s))

\* the compiled pattern of a _WildcardSelector, applied to an entry name
match(pat, s) == fnmatch(pat, s)

\* parent_path._make_child_relpath(name)
make_child_relpath(parent, n) == Append(parent, n)

\* Path.name: the final path component
name(p) == p[Len(p)]

\* the selected children of a listing, in listing order
RECURSIVE select(_, _, _)
select(parent, listing, pat) ==
  IF listing = <<>> THEN <<>>
  ELSE LET rest == select(parent, Tail(listing), pat)
       IN  IF match(pat, Head(listing))
             THEN <<make_child_relpath(parent, Head(listing))>> \o rest
             ELSE rest

\* a directory scan that raises whenever the directory is missing or cannot
\* be listed (os.listdir behaviour)
glob_raising(parent, status, listing, pat) ==
  IF status = "missing" THEN [raised |-> "FileNotFoundError", paths |-> <<>>]
  ELSE IF status \in {"unreadable", "inaccessible"}
    THEN [raised |-> "PermissionError", paths |-> <<>>]
  ELSE [raised |-> "none", paths |-> select(parent, listing, pat)]

\* Path.glob(pat) for a single wildcard component.  status is the state of
\* the directory, listing the order in which scandir returns its entries.
\*   "inaccessible": the directory cannot be stat'ed (a parent directory
\*     denies search): is_dir in select_from raises PermissionError, which
\*     nothing catches;
\*   "missing": is_dir is false and select_from returns an empty iterator;
\*   "unreadable": the directory can be stat'ed but not listed: scandir
\*     raises PermissionError, which _select_from swallows.
glob(parent, status, listing, pat) ==
  IF status = "inaccessible" THEN [raised |-> "PermissionError", paths |-> <<>>]
  ELSE IF status = "missing" THEN [raised |-> "none", paths |-> <<>>]
  ELSE IF status = "unreadable" THEN [raised |-> "none", paths |-> <<>>]
  ELSE [raised |-> "none", paths |-> select(parent, listing, pat)]

(***************************************************************************)
(* sorted() on a list of str.                                              *)
(***************************************************************************)
\* insert x into an ascending list, after the elements not greater than it
RECURSIVE insert(_, _)
insert(x, s) ==
  IF s = <<>> THEN <<x>>
  ELSE IF str_lt(x, Head(s)) THEN <<x>> \o s
  ELSE <<Head(s)>> \o insert(x, Tail(s))

RECURSIVE insertion_sort(_)
insertion_sort(s) ==
  IF s = <<>> THEN <<>> ELSE insert(s[Len(s)], insertion_sort(SubSeq(s, 1, Len(s) - 1)))

\* the list left in the order the filesystem produced it
unsorted(s) == s

\* sorted(list): a stable ascending sort
sorted(s) == insertion_sort(s)

\* [f.name for f in paths]
names_of(paths) == [i \in 1..Len(paths) |-> name(paths[i])]

\* the comprehension of line 17
basenames(paths) == names_of(paths)

(***************************************************************************)
(* Builtins used by the main block (app.py lines 32-35).                   *)
(***************************************************************************)
\* the white space above ASCII that int() accepts around a number
\* (Py_UNICODE_ISSPACE)
UnicodeSpace ==
  {133, 160, 5760, 8232, 8233, 8239, 8287, 12288} \cup (8192..8202)

\* the code points of the digit zero of every Unicode decimal digit block
\* (category Nd; each block holds the ten digits in order)
DecimalZeros ==
  {48, 1632, 1776, 1984, 2406, 2534, 2662, 2790, 2918, 3046, 3174, 3302, 3430,
   3558, 3664, 3792, 3872, 4160, 4240, 6112, 6160, 6470, 6608, 6784, 6800, 6992,
   7088, 7232, 7248, 42528, 43216, 43264, 43472, 43504, 43600, 44016, 65296,
   66720, 68912, 69734, 69872, 69942, 70096, 70384, 70736, 70864, 71248, 71360,
   71472, 71904, 72016, 72784, 73040, 73120, 92768, 92864, 93008, 120782, 120792,
   120802, 120812, 120822, 123200, 123632, 125264, 130032}

\* what int() does to a str before parsing it: ASCII is kept, any other
\* white space becomes a blank, any other decimal digit its ASCII digit,
\* anything else "?"
to_ascii(s) ==
  [i \in 1..Len(s) |->
     IF s[i] < 127 THEN s[i]
     ELSE IF s[i] \in UnicodeSpace THEN 32
     ELSE IF \E z \in DecimalZeros : z <= s[i] /\ s[i] <= z + 9
       THEN 48 + (s[i] - (CHOOSE z \in DecimalZeros : z <= s[i] /\ s[i] <= z + 9))
     ELSE 63]

\* the characters the parser skips around the number: tab, newline, vertical
\* tab, form feed, carriage return, blank (not the separators 28..31, which
\* str.strip would remove)
is_space(c) == (c >= 9 /\ c <= 13) \/ c = 32

RECURSIVE skip_leading(_)
skip_leading(s) == IF s # <<>> /\ is_space(Head(s)) THEN skip_leading(Tail(s)) ELSE s

RECURSIVE skip_trailing(_)
skip_trailing(s) ==
  IF s # <<>> /\ is_space(s[Len(s)]) THEN skip_trailing(SubSeq(s, 1, Len(s) - 1)) ELSE s

is_digit(c) == c >= 48 /\ c <= 57

\* the text is a run of ASCII decimal digits with single underscores between
\* digits
well_formed(s) ==
  /\ s # <<>>
  /\ \A i \in 1..Len(s) : is_digit(s[i]) \/ s[i] = 95
  /\ is_digit(s[1])
  /\ is_digit(s[Len(s)])
  /\ \A i \in 1..(Len(s) - 1) : ~(s[i] = 95 /\ s[i + 1] = 95)

\* the digits of the text, underscores dropped
digit_chars(s) == SelectSeq(s, is_digit)

\* sys.int_max_str_digits: the most digits int() converts from a str
MAX_STR_DIGITS == 4300

RECURSIVE strip_zeros(_)
strip_zeros(ds) == IF ds # <<>> /\ Head(ds) = 48 THEN strip_zeros(Tail(ds)) ELSE ds

RECURSIVE dec_value(_)
dec_value(ds) ==
  IF ds = <<>> THEN 0
  ELSE dec_value(SubSeq(ds, 1, Len(ds) - 1)) * 10 + (ds[Len(ds)] - 48)

\* Python's int has no width: a number is held as its sign and its decimal
\* digits without leading zeros (no digits for zero)
PyLong(neg, mag) == [neg |-> neg /\ mag # <<>>, mag |-> mag]

\* the decimal digits of a natural number
RECURSIVE decimal(_)
decimal(n) == IF n = 0 THEN <<>> ELSE Append(decimal(n \div 10), 48 + (n % 10))

\* the number written by a text of digits and underscores; ValueError when the
\* text is not well formed or has more than MAX_STR_DIGITS digits (leading
\* zeros counted)
digits(s) ==
  IF ~well_formed(s) THEN [raised |-> "ValueError", mag |-> <<>>]
  ELSE LET ds == digit_chars(s)
       IN  IF Len(ds) > MAX_STR_DIGITS THEN [raised |-> "ValueError", mag |-> <<>>]
           ELSE [raised |-> "none", mag |-> strip_zeros(ds)]

\* a value held by a Python name: an int or a str
PyInt(n) == [t |-> "int", v |-> PyLong(n < 0, decimal(IF n < 0 THEN 0 - n ELSE n)), s |-> <<>>]
PyStr(s) == [t |-> "str", v |-> PyLong(FALSE, <<>>), s |-> s]

\* a lookup that never consults the environment
environ_get_default(env, default) == PyInt(default)

\* os.environ.get("PORT", default): the variable's text when it is set,
\* the default object otherwise
environ_get(env, default) ==
  IF env.set THEN PyStr(env.value) ELSE PyInt(default)

\* int(x): an int is returned as is; a str is parsed in base 10 (white space
\* around it skipped, optional sign, Unicode decimal digits, underscores
\* between digits, at most MAX_STR_DIGITS digits), ValueError otherwise
int(v) ==
  IF v.t = "int" THEN [raised |-> "none", v |-> v.v]
  ELSE LET t == skip_trailing(skip_leading(to_ascii(v.s)))
           signed == t # <<>> /\ (Head(t) = 43 \/ Head(t) = 45)
           d == digits(IF signed THEN Tail(t) ELSE t)
       IN  IF d.raised # "none" THEN [raised |-> "ValueError", v |-> PyLong(FALSE, <<>>)]
           ELSE [raised |-> "none", v |-> PyLong(signed /\ Head(t) = 45, d.mag)]

\* the default of line 34
DEFAULT_PORT == 5000

\* the host of line 35
HOST == "0.0.0.0"

\* the debug argument of line 35
DEBUG == TRUE

NoServer == [host |-> "", port |-> -1]

\* ports the system may pick for a socket bound with port 0: any port but
\* 0; the range in use is a setting of the system (32768..60999 where it
\* was not changed)
EphemeralPorts == 1..65535

\* the magnitudes of the largest and the smallest C long (64 bits)
LONG_MAX == Str(<<"9","2","2","3","3","7","2","0","3","6","8","5","4","7","7","5","8","0","7">>)
LONG_MIN == Str(<<"9","2","2","3","3","7","2","0","3","6","8","5","4","7","7","5","8","0","8">>)

\* PyLong_AsLong succeeds: the number is within the C long
fits_long(n) ==
  LET lim == IF n.neg THEN LONG_MIN ELSE LONG_MAX
  IN  Len(n.mag) < Len(lim) \/ (Len(n.mag) = Len(lim) /\ ~str_lt(lim, n.mag))

\* the low 32 bits of a magnitude, as two 16-bit halves
RECURSIVE low32(_)
low32(mag) ==
  IF mag = <<>> THEN [hi |-> 0, lo |-> 0]
  ELSE LET p == low32(SubSeq(mag, 1, Len(mag) - 1))
           lo == p.lo * 10 + (mag[Len(mag)] - 48)
           hi == p.hi * 10 + (lo \div 65536)
       IN  [hi |-> hi % 65536, lo |-> lo % 65536]

\* strtoul of the decimal text of the number, stored into an int: the low
\* 32 bits of the number in two's complement
service_num(n) ==
  LET w == low32(n.mag)
  IN  IF ~n.neg THEN w
      ELSE [hi |-> (65535 - w.hi + (IF w.lo = 0 THEN 1 ELSE 0)) % 65536,
            lo |-> (65536 - w.lo) % 65536]

\* socket.getaddrinfo(host, port) with an int port, on glibc: the port is
\* converted to a C long (OverflowError beyond it) and printed; the
\* resolver reads the text back into an int, fails (gaierror) when that
\* int is negative and otherwise keeps its low 16 bits as the port
getaddrinfo(host, port) ==
  IF ~fits_long(port) THEN [raised |-> "OverflowError", port |-> -1]
  ELSE LET w == service_num(port)
       IN  IF w.hi >= 32768 THEN [raised |-> "gaierror", port |-> -1]
           ELSE [raised |-> "none", port |-> w.lo]

\* the port of a socket address, when the number is one: socket.bind
\* raises OverflowError for a port outside 0..65535
port_in_range(n) ==
  IF ~n.neg /\ Len(n.mag) <= 5 /\ dec_value(n.mag) <= 65535 THEN dec_value(n.mag) ELSE -1

\* werkzeug's get_sockaddr: the address getaddrinfo resolves, or (host, port)
\* as given when the resolver fails
get_sockaddr(host, port) ==
  LET r == getaddrinfo(host, port)
  IN  IF r.raised = "OverflowError" THEN r
      ELSE IF r.raised = "gaierror" THEN [raised |-> "none", port |-> port_in_range(port)]
      ELSE r

\* the ports the system may pick when the started process binds the
\* address the port resolves to: some port of EphemeralPorts when that is
\* port 0, none (written 0) otherwise
ephemeral_ports(host, port) ==
  IF get_sockaddr(host, port).port = 0 THEN EphemeralPorts ELSE {0}

\* app.run(host, port, debug) in the process with the given role; the result
\* holds the address of the listening socket.
\*   role "main", the process that was started: the address is resolved
\*     (get_sockaddr) and the socket is bound to it, to a port the system
\*     picks (ephemeral) when the resolved port is 0; a port the conversion
\*     or bind rejects raises OverflowError, a bind the system refuses
\*     (bindOk false) ends the process, recorded as OSError.
\*     With debug the reloader is on: the process does not serve itself but
\*     spawns a child that runs app.py again and inherits the socket.
\*   role "child", the reloader's child: serves on the inherited socket.
run(host, port, debug, role, bound, bindOk, ephemeral) ==
  LET a == get_sockaddr(host, port)
  IN  IF role = "child"
        THEN [raised |-> "none", server |-> bound, then |-> "serve"]
      ELSE IF a.raised # "none" \/ a.port = -1
        THEN [raised |-> "OverflowError", server |-> NoServer, then |-> "exit"]
      ELSE IF ~bindOk
        THEN [raised |-> "OSError", server |-> NoServer, then |-> "exit"]
      ELSE [raised |-> "none",
            server |-> [host |-> host, port |-> IF a.port = 0 THEN ephemeral ELSE a.port],
            then |-> IF debug THEN "spawn" ELSE "serve"]

(***************************************************************************)
(* Flask routing for the application of lines 13 and 23.                   *)
(***************************************************************************)
\* methods of a rule: HEAD is added to a rule that accepts GET, and OPTIONS
\* is added for the automatic OPTIONS response
rule_methods(methods) ==
  methods \cup (IF "GET" \in methods THEN {"HEAD"} ELSE {}) \cup {"OPTIONS"}

\* a route that also accepts POST
index_methods_post == {"GET", "POST"}

\* @app.route("/") with no methods argument: the default ("GET",)
index_methods == {"GET"}

\* the static route Flask adds for static_folder: GET only
static_methods == {"GET"}

StartsWith(s, pre) == Len(s) >= Len(pre) /\ SubSeq(s, 1, Len(pre)) = pre

NoMatch == [endpoint |-> "none", filename |-> <<>>, methods |-> {}]

\* the rule matching a path: "/" is the index rule,
\* "/static/<path:filename>" the static rule (filename is not empty and does
\* not start with a slash)
match_rule(path) ==
  LET pre == static_url_path \o <<47>>
  IN  IF path = <<47>>
        THEN [endpoint |-> "index", filename |-> <<>>,
              methods |-> rule_methods(index_methods)]
      ELSE IF StartsWith(path, pre) /\ Len(path) > Len(pre) /\ path[Len(pre) + 1] # 47
        THEN [endpoint |-> "static", filename |-> SubSeq(path, Len(pre) + 1, Len(path)),
              methods |-> rule_methods(static_methods)]
      ELSE NoMatch

\* the position of the first slash at or after position from, or one past
\* the end
first_slash(s, from) ==
  LET S == {i \in from..Len(s) : s[i] = 47}
  IN  IF S = {} THEN Len(s) + 1 ELSE CHOOSE i \in S : \A j \in S : i <= j

RECURSIVE lstrip_slashes(_)
lstrip_slashes(s) == IF s # <<>> /\ Head(s) = 47 THEN lstrip_slashes(Tail(s)) ELSE s

\* http.server's parse_request, which reads the request line for the
\* development server: a target that starts with two slashes has its
\* leading slashes reduced to one
parse_request(target) ==
  IF StartsWith(target, <<47, 47>>) THEN <<47>> \o lstrip_slashes(target) ELSE target

\* the path of a target split as a URL: the first segment of a target that
\* starts with two slashes is taken for a host, and is put back in front
\* of the path
urlsplit_path(target) ==
  IF StartsWith(target, <<47, 47>>)
    THEN LET d == first_slash(target, 3)
             netloc == SubSeq(target, 3, d - 1)
             rest == SubSeq(target, d, Len(target))
         IN  IF netloc # <<>> THEN <<47>> \o netloc \o rest ELSE rest
    ELSE target

\* the development server's make_environ: PATH_INFO is the path of the
\* target that parse_request left, split as a URL
make_environ(target) == urlsplit_path(parse_request(target))

\* the path the url map matches: PATH_INFO with its leading slashes reduced
\* to one, and empty when PATH_INFO is
path_part(path_info) ==
  IF path_info = <<>> THEN <<>> ELSE <<47>> \o lstrip_slashes(path_info)

\* re.sub("/{2,}?", "/", path): each pair of slashes, left to right,
\* becomes one slash
RECURSIVE merge_slashes(_)
merge_slashes(s) ==
  IF s = <<>> THEN <<>>
  ELSE IF Len(s) >= 2 /\ s[1] = 47 /\ s[2] = 47
    THEN <<47>> \o merge_slashes(SubSeq(s, 3, Len(s)))
  ELSE <<Head(s)>> \o merge_slashes(Tail(s))

NotFound == [code |-> 404, endpoint |-> "none", filename |-> <<>>, location |-> <<>>]

RequestRedirect(location) ==
  [code |-> 308, endpoint |-> "none", filename |-> <<>>, location |-> location]

\* the matcher of the url map, for a method and a path.
\*   An empty path lacks the slash of the index rule: a redirect to "/" when
\*   the method is one of the rule's, no match otherwise.
\*   A rule that matches path and method is the result.
\*   Otherwise the path is tried again with its slashes merged: a rule that
\*   then matches path and method gives a redirect to the merged path.
\*   Otherwise MethodNotAllowed (405) when a rule matched a tried path but
\*   not the method, NotFound (404) when none did.
match_path(method, path) ==
  LET r == match_rule(path)
      merged == merge_slashes(path)
      r2 == match_rule(merged)
  IN  IF path = <<>>
        THEN IF method \in rule_methods(index_methods)
               THEN RequestRedirect(<<47>>)
               ELSE NotFound
      ELSE IF r.endpoint # "none" /\ method \in r.methods
        THEN [code |-> 0, endpoint |-> r.endpoint, filename |-> r.filename,
              location |-> <<>>]
      ELSE IF r2.endpoint # "none" /\ method \in r2.methods
        THEN RequestRedirect(merged)
      ELSE IF r.endpoint # "none" \/ r2.endpoint # "none"
        THEN [code |-> 405,
              endpoint |-> IF r.endpoint # "none" THEN r.endpoint ELSE r2.endpoint,
              filename |-> <<>>, location |-> <<>>]
      ELSE NotFound

FAVICON_PATH == Str(<<"/","f","a","v","i","c","o","n",".","i","c","o">>)

\* a url map with one more rule, answering the favicon path
url_match_favicon(method, path_info) ==
  IF path_part(path_info) = FAVICON_PATH /\ method \in {"GET", "HEAD", "OPTIONS"}
    THEN [code |-> 0, endpoint |-> "favicon", filename |-> <<>>, location |-> <<>>]
    ELSE match_path(method, path_part(path_info))

\* a url map with a catch-all rule that sends every unknown path to index
url_match_catchall(method, path_info) ==
  LET u == match_path(method, path_part(path_info))
  IN  IF u.code # 404 THEN u
      ELSE IF method \in rule_methods(index_methods)
        THEN [code |-> 0, endpoint |-> "index", filename |-> <<>>, location |-> <<>>]
      ELSE [code |-> 405, endpoint |-> "index", filename |-> <<>>, location |-> <<>>]

\* MapAdapter.match for the PATH_INFO of a request: a matched rule, a
\* redirect (308), MethodNotAllowed (405) or NotFound (404)
url_match(method, path_info) == match_path(method, path_part(path_info))

\* the path of the debugger's console
CONSOLE_PATH == Str(<<"/","c","o","n","s","o","l","e">>)

\* the answers of the debugger to a request for its console: the console
\* page, or 400 when it does not trust the host the request names
ConsoleStatus == {200, 400}

\* DebuggedApplication, which app.run(debug=True) puts in front of the
\* application: it answers a request whose path (leading slashes reduced to
\* one) is the console path itself, whatever the method, and passes every
\* other request on
debugger_handles(debug, path_info) ==
  debug /\ <<47>> \o lstrip_slashes(path_info) = CONSOLE_PATH

(***************************************************************************)
(* The environment: directory entries, PORT values, requests.              *)
(***************************************************************************)
a_mp3 == Str(<<"a",".","m","p","3">>)
b_mp3 == Str(<<"b",".","m","p","3">>)
c_mp3 == Str(<<"c",".","m","p","3">>)
B_mp3 == Str(<<"B",".","m","p","3">>)
x_MP3 == Str(<<"x",".","M","P","3">>)
x_Mp3 == Str(<<"x",".","M","p","3">>)
a_txt == Str(<<"a",".","t","x","t">>)
dot_mp3 == Str(<<".","m","p","3">>)
amp3 == Str(<<"a","m","p","3">>)
a_mp3_bak == Str(<<"a",".","m","p","3",".","b","a","k">>)
a_mp3_mp3 == Str(<<"a",".","m","p","3",".","m","p","3">>)

\* entry names the audio directory may hold when the enumeration is studied
EntryNames ==
  {a_mp3, b_mp3, c_mp3, B_mp3, x_MP3, x_Mp3, a_txt, dot_mp3, amp3, a_mp3_bak, a_mp3_mp3}

\* entry names that come and go while the server is running
ServeNames == {a_mp3, b_mp3, x_MP3}

DirStatus == {"ok", "missing", "unreadable", "inaccessible"}

\* the directory states over a set of names: a missing directory has no
\* entries
DirStates(N) ==
  {d \in [status : DirStatus, entries : {e \in SUBSET N : Cardinality(e) <= MaxEntries}] :
     d.status = "missing" => d.entries = {}}

\* the orders in which scandir may return the entries of a directory
Listings(S) ==
  {f \in [1..Cardinality(S) -> S] : \A i, j \in 1..Cardinality(S) : f[i] = f[j] => i = j}

Unset == [set |-> FALSE, value |-> <<>>]
EnvStr(cs) == [set |-> TRUE, value |-> Str(cs)]
\* a value given by its code points
EnvText(s) == [set |-> TRUE, value |-> s]

\* values of the PORT environment variable: plain ports, ports with white
\* space, sign, underscore or non-ASCII digits, and texts that are no number
PortEnvs ==
  {Unset,
   EnvStr(<<"8","0","8","0">>), EnvStr(<<"1","0","0","0","0">>), EnvStr(<<"8","0">>),
   EnvStr(<<"5","0","0","0">>), EnvStr(<<"0">>), EnvStr(<<" ","8","0","8","0"," ">>),
   EnvStr(<<"+","8","0">>), EnvStr(<<"8","_","0">>), EnvStr(<<"-","1">>),
   EnvStr(<<"7","0","0","0","0">>), EnvStr(<<>>), EnvStr(<<"a","b","c">>),
   EnvStr(<<"8","0","a">>), EnvStr(<<"_","8","0">>), EnvStr(<<"8"," ","0">>),
   EnvText(<<56, 48, 56, 48, 10>>), EnvText(<<9, 56, 48, 56, 48>>),
   EnvText(<<160, 56, 48>>), EnvText(<<1640, 1632>>), EnvText(<<65304, 65296, 12288>>),
   EnvText(<<28, 56, 48>>), EnvText(<<178>>),
   EnvText([i \in 1..10 |-> 49]), EnvText([i \in 1..5 |-> IF i < 4 THEN 48 ELSE 56]),
   EnvText([i \in 1..MAX_STR_DIGITS |-> 49]), EnvText([i \in 1..(MAX_STR_DIGITS + 1) |-> 49]),
   EnvText([i \in 1..(MAX_STR_DIGITS + 1) |-> IF i = 1 THEN 56 ELSE 48]),
   EnvStr(<<"6","5","5","3","5">>), EnvStr(<<"6","5","5","3","6">>),
   EnvStr(<<"2","1","4","7","4","8","3","6","4","7">>),
   EnvStr(<<"3","0","0","0","0","0","0","0","0","0">>),
   EnvStr(<<"4","2","9","4","9","6","7","2","9","7">>),
   EnvStr(<<"-","4","2","9","4","9","6","7","2","9","5">>),
   EnvStr(<<"-","4","2","9","4","9","6","7","2","9","6">>),
   EnvText(LONG_MAX), EnvText(LONG_MIN), EnvText(<<45>> \o LONG_MAX)}

Methods == {"GET", "HEAD", "OPTIONS", "POST", "PUT", "DELETE"}

ROOT_PATH == Str(<<"/">>)
NOPE_PATH == Str(<<"/","n","o","p","e">>)
STATIC_A_PATH == Str(<<"/","s","t","a","t","i","c","/","a","u","d","i","o","/">>) \o a_mp3
AUDIO_A_PATH == Str(<<"/","a","u","d","i","o","/">>) \o a_mp3
STATIC_PATH == Str(<<"/","s","t","a","t","i","c">>)

SLASHES_PATH == Str(<<"/","/">>)
SLASHES3_PATH == Str(<<"/","/","/">>)
SLASH_NOPE_PATH == <<47>> \o NOPE_PATH
NOPE_X_PATH == NOPE_PATH \o Str(<<"/","/","x">>)
SLASH_CONSOLE_PATH == <<47>> \o CONSOLE_PATH
CONSOLE_SLASH_PATH == CONSOLE_PATH \o <<47>>
SLASH_STATIC_A_PATH == <<47>> \o STATIC_A_PATH
STATIC_SLASH_A_PATH == Str(<<"/","s","t","a","t","i","c","/","/","a","u","d","i","o","/">>) \o a_mp3

\* request paths.  A request is a method and a path of plain characters: no
\* query string, no percent-encoding.
Paths ==
  {ROOT_PATH, NOPE_PATH, FAVICON_PATH, STATIC_A_PATH, AUDIO_A_PATH, STATIC_PATH}

\* request paths that also exercise the debugger and the treatment of
\* doubled slashes
RoutePaths ==
  Paths \cup {CONSOLE_PATH, SLASH_CONSOLE_PATH, CONSOLE_SLASH_PATH, SLASHES_PATH,
              SLASHES3_PATH, SLASH_NOPE_PATH, NOPE_X_PATH, SLASH_STATIC_A_PATH,
              STATIC_SLASH_A_PATH}

(***************************************************************************)
(* State.                                                                  *)
(***************************************************************************)
VARIABLES
  pc,             \* "boot", "loaded" (module body done), "serving", "crashed"
  role,           \* "main": the process that was started; "child": the reloader's child
  dirStatus,      \* the audio directory: "ok", "missing", "unreadable", "inaccessible"
  dirEntries,     \* the names of its entries
  envPort,        \* the PORT environment variable
  asMain,         \* whether app.py is run as the main program
  STATION_COUNT,  \* module global of the current process (0 while unbound)
  AUDIO_FILES,    \* module global of the current process (empty while unbound)
  error,          \* the uncaught exception that ended the process, or "none"
  server,         \* the (host, port) of the listening socket
  inflight,       \* the bag of requests that are inside index()
  lastResponse,   \* the response sent most recently
  runs            \* history: the latest consecutive scans of the directory as it
                  \* was at the latest scan (at most MaxRuns of them)

vars == <<pc, role, dirStatus, dirEntries, envPort, asMain, STATION_COUNT, AUDIO_FILES,
          error, server, inflight, lastResponse, runs>>

NoResponse ==
  [method |-> "", path |-> <<>>, status |-> 0, view |-> "none",
   station_count |-> 0, audio_files |-> <<>>, body |-> "none", location |-> <<>>]

InitWith(dirs, envs, mains) ==
  /\ pc = "boot"
  /\ role = "main"
  /\ \E d \in dirs : dirStatus = d.status /\ dirEntries = d.entries
  /\ envPort \in envs
  /\ asMain \in mains
  /\ STATION_COUNT = 0
  /\ AUDIO_FILES = <<>>
  /\ error = "none"
  /\ server = NoServer
  /\ inflight = EmptyBag
  /\ lastResponse = NoResponse
  /\ runs = <<>>

(***************************************************************************)
(* Process start.                                                          *)
(***************************************************************************)
\* the history after a scan: earlier scans are kept while they saw the same
\* directory, the oldest is dropped when MaxRuns are held
Record(names, files) ==
  LET same == /\ runs # <<>>
              /\ runs[Len(runs)].status = dirStatus
              /\ runs[Len(runs)].entries = dirEntries
      kept == IF ~same THEN <<>>
              ELSE IF Len(runs) >= MaxRuns THEN Tail(runs) ELSE runs
  IN  Append(kept, [status |-> dirStatus, entries |-> dirEntries,
                    shuffled |-> names # insertion_sort(names), files |-> files])

\* app.py lines 10-29, the module body, in the started process and again in
\* every reloader child: bind STATION_COUNT, create the app, scan the audio
\* directory (in whatever order scandir lists it), bind AUDIO_FILES,
\* register index.  An exception raised here is not caught.
ModuleLoad ==
  /\ pc = "boot"
  /\ \E listing \in Listings(dirEntries) :
       LET g == glob(AUDIO_DIR, dirStatus, listing, GLOB_PATTERN)
           names == basenames(g.paths)
           files == sorted(names)
       IN  IF g.raised = "none"
             THEN /\ pc' = "loaded"
                  /\ STATION_COUNT' = STATION_COUNT_VALUE
                  /\ AUDIO_FILES' = files
                  /\ error' = "none"
                  /\ runs' = Record(names, files)
             ELSE /\ pc' = "crashed"
                  /\ STATION_COUNT' = STATION_COUNT_VALUE
                  /\ AUDIO_FILES' = <<>>
                  /\ error' = g.raised
                  /\ runs' = Record(<<>>, <<>>)
  /\ UNCHANGED <<role, dirStatus, dirEntries, envPort, asMain, server, inflight,
                 lastResponse>>

\* app.py lines 32-35.  Run as the main program: read PORT and call app.run;
\* the started process binds and, the reloader being on, hands over to a
\* child that runs app.py from the top; the child serves.  Imported by a
\* WSGI host: the host serves the app.
Main ==
  /\ pc = "loaded"
  /\ IF asMain
       THEN LET port == int(environ_get(envPort, DEFAULT_PORT))
                picks == IF role = "main" /\ port.raised = "none"
                           THEN ephemeral_ports(HOST, port.v)
                           ELSE {0}
            IN  \E bindOk \in BOOLEAN, ephemeral \in picks :
                  LET r == run(HOST, port.v, DEBUG, role, server, bindOk, ephemeral)
                  IN  IF port.raised # "none"
                        THEN /\ pc' = "crashed" /\ error' = port.raised /\ server' = NoServer
                             /\ UNCHANGED <<role, STATION_COUNT, AUDIO_FILES>>
                      ELSE IF r.raised # "none"
                        THEN /\ pc' = "crashed" /\ error' = r.raised /\ server' = NoServer
                             /\ UNCHANGED <<role, STATION_COUNT, AUDIO_FILES>>
                      ELSE IF r.then = "spawn"
                        THEN /\ pc' = "boot" /\ role' = "child" /\ error' = "none"
                             /\ server' = r.server
                             /\ STATION_COUNT' = 0 /\ AUDIO_FILES' = <<>>
                      ELSE /\ pc' = "serving" /\ error' = "none" /\ server' = r.server
                           /\ UNCHANGED <<role, STATION_COUNT, AUDIO_FILES>>
       ELSE /\ pc' = "serving" /\ error' = "none" /\ server' = NoServer
            /\ UNCHANGED <<role, STATION_COUNT, AUDIO_FILES>>
  /\ UNCHANGED <<dirStatus, dirEntries, envPort, asMain, inflight, lastResponse, runs>>

\* the reloader sees a source file change: the serving child exits and the
\* started process spawns a new child on the same socket
Reload ==
  /\ pc = "serving"
  /\ role = "child"
  /\ pc' = "boot"
  /\ STATION_COUNT' = 0
  /\ AUDIO_FILES' = <<>>
  /\ inflight' = EmptyBag
  /\ lastResponse' = NoResponse
  /\ UNCHANGED <<role, dirStatus, dirEntries, envPort, asMain, error, server, runs>>

\* the process ends (or has crashed) and is started again
Restart ==
  /\ pc \in {"serving", "crashed"}
  /\ pc' = "boot"
  /\ role' = "main"
  /\ STATION_COUNT' = 0
  /\ AUDIO_FILES' = <<>>
  /\ error' = "none"
  /\ server' = NoServer
  /\ inflight' = EmptyBag
  /\ lastResponse' = NoResponse
  /\ UNCHANGED <<dirStatus, dirEntries, envPort, asMain, runs>>

(***************************************************************************)
(* Request handling.                                                       *)
(***************************************************************************)
Response(req, status, view, sc, af, body) ==
  [method |-> req.method, path |-> req.path, status |-> status, view |-> view,
   station_count |-> sc, audio_files |-> af, body |-> body, location |-> <<>>]

\* render_template("index.html", station_count=..., audio_files=...): a 200
\* page built from the two context values
render_template(sc, af) ==
  [status |-> 200, station_count |-> sc, audio_files |-> af, body |-> "html"]

\* the files currently matched in the audio directory, sorted
scan_now ==
  LET listing == CHOOSE l \in Listings(dirEntries) : TRUE
  IN  sorted(basenames(glob(AUDIO_DIR, dirStatus, listing, GLOB_PATTERN).paths))

\* a view that scans the directory again on every request
index_rescan == render_template(STATION_COUNT, scan_now)

\* a view that derives the station count from the list
index_count_files == render_template(Len(AUDIO_FILES), AUDIO_FILES)

\* a view that answers 404 when there is nothing to list
index_abort_empty ==
  IF AUDIO_FILES = <<>>
    THEN [status |-> 404, station_count |-> 0, audio_files |-> <<>>, body |-> "error"]
    ELSE render_template(STATION_COUNT, AUDIO_FILES)

\* app.py lines 24-29, the view function
index == render_template(STATION_COUNT, AUDIO_FILES)

AUDIO_PREFIX == Str(<<"a","u","d","i","o","/">>)

\* what the entry asked for turns out to be: a regular file that can be
\* read; something os.path.isfile rejects (a directory, a dangling link, an
\* entry that cannot be stat'ed); a regular file that cannot be opened
FileAccess == {"file", "notfile", "denied"}

\* send_static_file(filename): the file under the static folder; 404 when
\* there is no such regular file, 500 when opening it raises.  The static
\* folder is modelled with its audio subdirectory only.
send_static_file(filename, access) ==
  IF /\ dirStatus \in {"ok", "unreadable"}
     /\ StartsWith(filename, AUDIO_PREFIX)
     /\ SubSeq(filename, Len(AUDIO_PREFIX) + 1, Len(filename)) \in dirEntries
     /\ access # "notfile"
    THEN IF access = "file" THEN [status |-> 200, body |-> "file"]
         ELSE [status |-> 500, body |-> "error"]
    ELSE [status |-> 404, body |-> "error"]

\* the PATH_INFO a request arrives with.  Run as the main program the
\* development server computes it (make_environ); a WSGI host that imported
\* the module passes the path as received or, being the development
\* server, computes it the same way.
PathInfos(p) == IF asMain THEN {make_environ(p)} ELSE {p, make_environ(p)}

\* a request up to the call of the view.  Run as the main program the
\* debugger comes first and answers a request for its console.  Otherwise
\* full_dispatch_request: match the URL, answer routing errors and
\* redirects, automatic OPTIONS and static files at once, or enter index()
Dispatch(m, p) ==
  /\ pc = "serving"
  /\ BagCardinality(inflight) < MaxRequests
  /\ \E path_info \in PathInfos(p) :
       LET req == [method |-> m, path |-> p]
           u == url_match(m, path_info)
       IN  IF debugger_handles(asMain /\ DEBUG, path_info)
             THEN /\ \E status \in ConsoleStatus :
                       lastResponse' =
                         Response(req, status, "debugger", 0, <<>>,
                                  IF status = 200 THEN "console" ELSE "error")
                  /\ UNCHANGED inflight
           ELSE IF u.code = 308
             THEN /\ lastResponse' =
                       [Response(req, u.code, "none", 0, <<>>, "redirect")
                          EXCEPT !.location = u.location]
                  /\ UNCHANGED inflight
           ELSE IF u.code # 0
             THEN /\ lastResponse' = Response(req, u.code, "none", 0, <<>>, "error")
                  /\ UNCHANGED inflight
           ELSE IF m = "OPTIONS"
             THEN /\ lastResponse' = Response(req, 200, "none", 0, <<>>, "empty")
                  /\ UNCHANGED inflight
           ELSE IF u.endpoint = "static"
             THEN /\ \E access \in FileAccess :
                       LET f == send_static_file(u.filename, access)
                       IN  lastResponse' =
                             Response(req, f.status, "static", 0, <<>>,
                                      IF m = "HEAD" /\ f.status = 200 THEN "stripped" ELSE f.body)
                  /\ UNCHANGED inflight
           ELSE IF u.endpoint = "favicon"
             THEN /\ lastResponse' = Response(req, 204, "favicon", 0, <<>>, "empty")
                  /\ UNCHANGED inflight
           ELSE /\ inflight' = inflight (+) SetToBag({req})
                /\ UNCHANGED lastResponse
  /\ UNCHANGED <<pc, role, dirStatus, dirEntries, envPort, asMain, STATION_COUNT,
                 AUDIO_FILES, error, server, runs>>

\* the view runs for a request that was routed to it and the response is
\* sent; the body of a HEAD response is stripped
Index(req) ==
  /\ pc = "serving"
  /\ BagIn(req, inflight)
  /\ LET v == index
     IN  lastResponse' =
           Response(req, v.status, "index", v.station_count, v.audio_files,
                    IF req.method = "HEAD" /\ v.status = 200 THEN "stripped" ELSE v.body)
  /\ inflight' = inflight (-) SetToBag({req})
  /\ UNCHANGED <<pc, role, dirStatus, dirEntries, envPort, asMain, STATION_COUNT,
                 AUDIO_FILES, error, server, runs>>

(***************************************************************************)
(* The audio directory changes under the running server.                   *)
(***************************************************************************)
AddFile(n) ==
  /\ pc # "boot"
  /\ dirStatus = "ok"
  /\ n \notin dirEntries
  /\ Cardinality(dirEntries) < MaxEntries
  /\ dirEntries' = dirEntries \cup {n}
  /\ UNCHANGED <<pc, role, dirStatus, envPort, asMain, STATION_COUNT, AUDIO_FILES, error,
                 server, inflight, lastResponse, runs>>

RemoveFile(n) ==
  /\ pc # "boot"
  /\ dirStatus = "ok"
  /\ n \in dirEntries
  /\ dirEntries' = dirEntries \ {n}
  /\ UNCHANGED <<pc, role, dirStatus, envPort, asMain, STATION_COUNT, AUDIO_FILES, error,
                 server, inflight, lastResponse, runs>>

RenameFile(n, m) ==
  /\ pc # "boot"
  /\ dirStatus = "ok"
  /\ n \in dirEntries
  /\ m \notin dirEntries
  /\ dirEntries' = (dirEntries \ {n}) \cup {m}
  /\ UNCHANGED <<pc, role, dirStatus, envPort, asMain, STATION_COUNT, AUDIO_FILES, error,
                 server, inflight, lastResponse, runs>>

(***************************************************************************)
(* Specifications.                                                         *)
(***************************************************************************)
\* the server with requests, reloads and a changing directory
Init == InitWith(DirStates(ServeNames), {Unset}, BOOLEAN)

Next ==
  \/ ModuleLoad
  \/ Main
  \/ Reload
  \/ \E m \in Methods, p \in Paths : Dispatch(m, p)
  \/ \E req \in BagToSet(inflight) : Index(req)
  \/ \E n \in ServeNames : AddFile(n)
  \/ \E n \in ServeNames : RemoveFile(n)
  \/ \E n, m \in ServeNames : RenameFile(n, m)

Spec == Init /\ [][Next]_vars

\* the startup enumeration, run repeatedly against a directory that does not
\* change
InitEnum == InitWith(DirStates(EntryNames), {Unset}, BOOLEAN)

NextEnum == ModuleLoad \/ Main \/ Reload \/ Restart

SpecEnum == InitEnum /\ [][NextEnum]_vars

\* the server with requests whose paths exercise the debugger and doubled
\* slashes, over an audio directory that is missing, empty or holds two files
RouteDirs ==
  {d \in DirStates({a_mp3, b_mp3}) :
     d.status \in {"ok", "missing"} /\ Cardinality(d.entries) # 1}

InitRoute == InitWith(RouteDirs, {Unset}, BOOLEAN)

NextRoute ==
  \/ ModuleLoad
  \/ Main
  \/ Reload
  \/ \E m \in Methods, p \in RoutePaths : Dispatch(m, p)
  \/ \E req \in BagToSet(inflight) : Index(req)

SpecRoute == InitRoute /\ [][NextRoute]_vars

\* the main block under every value of PORT, over an audio directory that
\* holds one file and can or cannot be reached
MainDirs ==
  {d \in DirStates({a_mp3, x_MP3}) :
     d.status \in {"ok", "inaccessible"} /\ d.entries = {a_mp3}}

InitMain == InitWith(MainDirs, PortEnvs, BOOLEAN)

NextMain == ModuleLoad \/ Main \/ Reload

SpecMain == InitMain /\ [][NextMain]_vars

(***************************************************************************)
(* Properties.                                                             *)
(***************************************************************************)
MP3_SUFFIX == Str(<<".","m","p","3">>)

\* s ends with the text suf
EndsWith(s, suf) ==
  Len(s) >= Len(suf) /\ \A i \in 1..Len(suf) : s[Len(s) - Len(suf) + i] = suf[i]

\* a comes strictly before b in lexicographic order of code points
LexLess(a, b) ==
  \E k \in 1..Len(b) :
    /\ \A i \in 1..(k - 1) : i <= Len(a) /\ a[i] = b[i]
    /\ (k > Len(a) \/ (k <= Len(a) /\ a[k] < b[k]))

\* the scan made by the current process
Scanned == runs[Len(runs)]

\* the current process has run its module body
Started == pc # "boot" /\ runs # <<>>

\* the exceptions a directory scan could raise
ScanErrors == {"FileNotFoundError", "PermissionError"}

\* C1: after the startup enumeration of an existing directory D, AUDIO_FILES
\* holds only base names of entries of D that end with ".mp3", holds every
\* such entry, and is strictly ascending in lexicographic order (so sorted
\* and without duplicates); entries with another suffix, "x.MP3" and "x.Mp3"
\* included, are absent.
C1_SortedMp3Names ==
  (Started /\ Scanned.status = "ok") =>
    /\ \A i \in 1..Len(AUDIO_FILES) :
         AUDIO_FILES[i] \in Scanned.entries /\ EndsWith(AUDIO_FILES[i], MP3_SUFFIX)
    /\ \A n \in Scanned.entries :
         EndsWith(n, MP3_SUFFIX) => \E i \in 1..Len(AUDIO_FILES) : AUDIO_FILES[i] = n
    /\ \A i, j \in 1..Len(AUDIO_FILES) : i < j => LexLess(AUDIO_FILES[i], AUDIO_FILES[j])

\* a directory holding b.mp3, a.mp3 and an upper-case x.MP3, listed out of
\* order, was enumerated into <<a.mp3, b.mp3>>
C1_Witness ==
  /\ Started
  /\ Scanned.status = "ok"
  /\ Scanned.entries = {b_mp3, a_mp3, x_MP3}
  /\ Scanned.shuffled
  /\ AUDIO_FILES = <<a_mp3, b_mp3>>

\* the step condition of C2
C2_Step ==
  (pc \in {"loaded", "serving"} /\ pc' \in {"loaded", "serving"}) =>
       /\ AUDIO_FILES' = AUDIO_FILES
       /\ STATION_COUNT' = STATION_COUNT
       /\ (lastResponse'.view = "index" =>
             /\ lastResponse'.audio_files = Scanned.files
             /\ lastResponse'.station_count = STATION_COUNT_VALUE)

\* C2: while a process that has run its module body lives, no step changes
\* its AUDIO_FILES or STATION_COUNT, whatever requests and directory changes
\* interleave, and every response of the index view carries the list that
\* process built at its start and the count bound at its start.
C2_GlobalsFrozen == [][C2_Step]_vars

\* an index response was sent while another request was inside the view and
\* after the directory had changed so that a new scan would give another list
C2_Witness ==
  /\ pc = "serving"
  /\ lastResponse.view = "index"
  /\ lastResponse.method = "GET"
  /\ lastResponse.audio_files = <<a_mp3>>
  /\ Scanned.entries = {a_mp3}
  /\ dirEntries = {b_mp3, x_MP3}
  /\ BagCardinality(inflight) > 0

\* C3 as stated: a process started on a missing or unreadable audio
\* directory never reaches the serving state.
C3_StartupAborts ==
  (Started /\ Scanned.status # "ok") => pc # "serving"

\* C3 amended: the enumeration of a directory that is missing, or that can
\* be stat'ed but not listed, raises nothing and leaves AUDIO_FILES empty, so
\* the process is not ended by a filesystem error; only the enumeration of a
\* directory that cannot be stat'ed ends the process, with PermissionError.
C3_StartsEmpty ==
  /\ (Started /\ Scanned.status \in {"missing", "unreadable"}) =>
       /\ AUDIO_FILES = <<>>
       /\ error \notin ScanErrors
  /\ (Started /\ Scanned.status = "inaccessible") =>
       /\ pc = "crashed"
       /\ error = "PermissionError"

\* a server started on a missing directory has answered GET / with a page
C3_Witness ==
  /\ pc = "serving"
  /\ Scanned.status = "missing"
  /\ lastResponse.view = "index"
  /\ lastResponse.status = 200

\* C4: started on an existing directory with no entry ending in ".mp3",
\* the enumeration raises nothing, AUDIO_FILES is empty, and every response
\* to GET / is a 200 page with an empty file list.
C4_EmptyListServed ==
  (Started /\ Scanned.status = "ok"
     /\ \A n \in Scanned.entries : ~EndsWith(n, MP3_SUFFIX)) =>
    /\ AUDIO_FILES = <<>>
    /\ error \notin ScanErrors
    /\ (lastResponse.method = "GET" /\ lastResponse.path = ROOT_PATH) =>
         /\ lastResponse.status = 200
         /\ lastResponse.body = "html"
         /\ lastResponse.audio_files = <<>>

\* a server started on a directory holding only x.MP3 has answered GET /
C4_Witness ==
  /\ pc = "serving"
  /\ Scanned.status = "ok"
  /\ Scanned.entries = {x_MP3}
  /\ lastResponse.method = "GET"
  /\ lastResponse.path = ROOT_PATH
  /\ lastResponse.status = 200

\* C5: every response to GET / passes station count 4 to the template,
\* whatever AUDIO_FILES holds.
C5_StationCountFour ==
  (lastResponse.method = "GET" /\ lastResponse.path = ROOT_PATH) =>
    /\ lastResponse.view = "index"
    /\ lastResponse.station_count = 4

\* GET / was answered with two audio files and station count 4
C5_Witness ==
  /\ lastResponse.method = "GET"
  /\ lastResponse.path = ROOT_PATH
  /\ Len(lastResponse.audio_files) = 2
  /\ lastResponse.station_count = 4

\* C6 as stated: every response to a request for / with a method other than
\* GET is 405.
C6_NonGetIs405 ==
  (lastResponse.path = ROOT_PATH /\ lastResponse.method # "GET") =>
    lastResponse.status = 405

\* the step condition of C6
C6_Step ==
  (lastResponse'.path = ROOT_PATH
        /\ lastResponse'.method \notin {"GET", "HEAD", "OPTIONS"}) =>
       /\ lastResponse'.status = 405
       /\ lastResponse'.view = "none"
       /\ (lastResponse' # lastResponse =>
             /\ inflight' = inflight
             /\ AUDIO_FILES' = AUDIO_FILES
             /\ STATION_COUNT' = STATION_COUNT)

\* C6 amended: a request for / with a method other than GET, HEAD and
\* OPTIONS is answered 405 without entering the index view, and the step
\* that answers it leaves AUDIO_FILES and STATION_COUNT unchanged.
C6_UnsupportedIs405 == [][C6_Step]_vars

\* DELETE / was answered 405 while the globals hold the startup values
C6_Witness ==
  /\ lastResponse.method = "DELETE"
  /\ lastResponse.path = ROOT_PATH
  /\ lastResponse.status = 405
  /\ AUDIO_FILES = <<a_mp3, b_mp3>>
  /\ STATION_COUNT = 4

\* C7 as stated: GET /favicon.ico is answered 204 with an empty body.
C7_Favicon204 ==
  (lastResponse.method = "GET" /\ lastResponse.path = FAVICON_PATH) =>
    lastResponse.status = 204 /\ lastResponse.body = "empty"

\* C7 amended: the application has no favicon route; GET /favicon.ico falls
\* through to the not-found handler and is answered 404.
C7_Favicon404 ==
  (lastResponse.method = "GET" /\ lastResponse.path = FAVICON_PATH) =>
    /\ lastResponse.status = 404
    /\ lastResponse.view = "none"
    /\ lastResponse.body = "error"

\* GET /favicon.ico was answered 404
C7_Witness ==
  /\ lastResponse.method = "GET"
  /\ lastResponse.path = FAVICON_PATH
  /\ lastResponse.status = 404

\* C8: two scans of the same directory build the same AUDIO_FILES, in
\* whatever order the filesystem listed the entries.
C8_Deterministic ==
  \A i, j \in 1..Len(runs) :
    (runs[i].status = runs[j].status /\ runs[i].entries = runs[j].entries) =>
      runs[i].files = runs[j].files

\* two scans of the same directory, one listed in sorted order and one not,
\* built the same list of two or more names
C8_Witness ==
  /\ Len(runs) >= 2
  /\ pc # "boot"
  /\ runs[1].entries = runs[2].entries
  /\ runs[1].shuffled # runs[2].shuffled
  /\ Len(runs[1].files) >= 2
  /\ runs[2].files = AUDIO_FILES

\* the path names a file under the static prefix
UnderStatic(p) == Len(p) >= 9 /\ SubSeq(p, 1, 8) = STATIC_PATH \o <<47>>

\* the step condition of C9 as stated
C9_AnyStep ==
  (lastResponse'.method = "GET" /\ lastResponse'.path # ROOT_PATH
        /\ ~UnderStatic(lastResponse'.path)) =>
       /\ lastResponse'.status = 404
       /\ lastResponse'.view = "none"
       /\ (lastResponse' # lastResponse =>
             /\ inflight' = inflight
             /\ AUDIO_FILES' = AUDIO_FILES
             /\ STATION_COUNT' = STATION_COUNT)

\* C9 as stated: a GET for any path that is neither / nor under the static
\* prefix is answered 404 by the not-found handler, and the step that
\* answers it changes neither the globals nor the requests in flight.
C9_AnyUnknownPath404 == [][C9_AnyStep]_vars

\* a path with its leading slashes reduced to one
RECURSIVE OneSlash(_)
OneSlash(p) == IF Len(p) >= 2 /\ p[1] = 47 /\ p[2] = 47 THEN OneSlash(Tail(p)) ELSE p

\* the step condition of C9 amended
C9_Step ==
  LET q == OneSlash(lastResponse'.path)
  IN  (/\ lastResponse'.method = "GET"
       /\ q # ROOT_PATH
       /\ ~UnderStatic(q)
       /\ ~(asMain /\ q = CONSOLE_PATH)) =>
         /\ lastResponse'.status = 404
         /\ lastResponse'.view = "none"
         /\ (lastResponse' # lastResponse =>
               /\ inflight' = inflight
               /\ AUDIO_FILES' = AUDIO_FILES
               /\ STATION_COUNT' = STATION_COUNT)

\* C9 amended: a GET for a path that, with its leading slashes reduced to
\* one, is neither / nor under the static prefix, and is not /console while
\* the program runs as the main program, is answered 404 by the not-found
\* handler, and the step that answers it changes neither the globals nor
\* the requests in flight.
C9_UnknownPath404 == [][C9_Step]_vars

\* run as the main program, GET /nope was answered 404
C9_Witness ==
  /\ asMain
  /\ lastResponse.method = "GET"
  /\ lastResponse.path = NOPE_PATH
  /\ lastResponse.status = 404
  /\ AUDIO_FILES = <<a_mp3, b_mp3>>

\* the number a PORT text denotes, for the texts that denote a number of at
\* most 31 bits; -1 for the other texts
PortOf(env) ==
  CASE env = EnvStr(<<"8","0","8","0">>) -> 8080
    [] env = EnvStr(<<"1","0","0","0","0">>) -> 10000
    [] env = EnvStr(<<"8","0">>) -> 80
    [] env = EnvStr(<<"5","0","0","0">>) -> 5000
    [] env = EnvStr(<<"0">>) -> 0
    [] env = EnvStr(<<" ","8","0","8","0"," ">>) -> 8080
    [] env = EnvStr(<<"+","8","0">>) -> 80
    [] env = EnvStr(<<"8","_","0">>) -> 80
    [] env = EnvText(<<56, 48, 56, 48, 10>>) -> 8080
    [] env = EnvText(<<9, 56, 48, 56, 48>>) -> 8080
    [] env = EnvText(<<160, 56, 48>>) -> 80
    [] env = EnvText(<<1640, 1632>>) -> 80
    [] env = EnvText(<<65304, 65296, 12288>>) -> 80
    [] env = EnvText(<<48, 48, 48, 56, 56>>) -> 88
    [] env = EnvStr(<<"6","5","5","3","5">>) -> 65535
    [] env = EnvStr(<<"6","5","5","3","6">>) -> 65536
    [] env = EnvStr(<<"7","0","0","0","0">>) -> 70000
    [] env = EnvStr(<<"1","1","1","1","1","1","1","1","1","1">>) -> 1111111111
    [] env = EnvStr(<<"2","1","4","7","4","8","3","6","4","7">>) -> 2147483647
    [] OTHER -> -1

\* PortOf as a table over the PORT values of the model
PortTable == [env \in PortEnvs |-> PortOf(env)]

\* the port the main block is expected to pass to app.run
ExpectedPort == IF envPort.set THEN PortTable[envPort] ELSE 5000

\* the number a PORT text denotes modulo 65536, the larger numbers worked
\* out by hand; -1 for a text that denotes no number and for the negative
\* numbers and the numbers of thousands of digits, with which nothing is
\* bound
ResidueOf(env) ==
  CASE env = EnvStr(<<"3","0","0","0","0","0","0","0","0","0">>) -> 24064
    [] env = EnvStr(<<"4","2","9","4","9","6","7","2","9","7">>) -> 1
    [] env = EnvStr(<<"-","4","2","9","4","9","6","7","2","9","5">>) -> 1
    [] env = EnvStr(<<"-","4","2","9","4","9","6","7","2","9","6">>) -> 0
    [] env = EnvText(LONG_MAX) -> 65535
    [] env = EnvText(LONG_MIN) -> 0
    [] env = EnvText(<<45>> \o LONG_MAX) -> 1
    [] OTHER -> IF PortOf(env) >= 0 THEN PortOf(env) % 65536 ELSE -1

\* ResidueOf as a table over the PORT values of the model
ResidueTable == [env \in PortEnvs |-> ResidueOf(env)]

\* the number PORT denotes (5000 when PORT is not set) modulo 65536
PortResidue == IF envPort.set THEN ResidueTable[envPort] ELSE 5000

\* C10 as stated: run as the main program, the server serves on a listening
\* socket, bound to host 0.0.0.0 and to the port PORT denotes, or 5000 when
\* PORT is not set.
C10_BindsGivenPort ==
  asMain =>
    /\ pc = "serving" => server # NoServer
    /\ server # NoServer => server = [host |-> "0.0.0.0", port |-> ExpectedPort]

\* C10 amended: run as the main program, the server serves on a listening
\* socket bound to host 0.0.0.0.  Its port is the port PORT denotes when
\* that is in 1..65535, and 5000 when PORT is not set.  When PORT denotes 0
\* or a number outside 0..65535 the port is not that number: it is the
\* number modulo 65536, and a nonzero port picked by the system when that
\* is 0.
C10_BindAddress ==
  asMain =>
    /\ pc = "serving" => server # NoServer
    /\ server # NoServer =>
         /\ server.host = "0.0.0.0"
         /\ server.port \in 1..65535
         /\ ExpectedPort \in 1..65535 => server.port = ExpectedPort
         /\ PortResidue > 0 => server.port = PortResidue

\* with PORT=8080 the main program serves on 0.0.0.0:8080
C10_Witness ==
  /\ asMain
  /\ pc = "serving"
  /\ envPort = EnvStr(<<"8","0","8","0">>)
  /\ server = [host |-> "0.0.0.0", port |-> 8080]

====
